---- MODULE Spec2Model ----
(***************************************************************************)
(* Model of galario's python/utils.py: the radial sweep (g_sweep_prototype *)
(* and sweep_ref), the bilinear sampler int_bilin_MT, the uv -> pixel      *)
(* mapping uv_idx_r2c and the two Fourier phase shifters.                  *)
(*                                                                         *)
(* Arithmetic is exact.  Lengths of the sweep are integers; an offset is   *)
(* kept doubled (x2 = 2*x) so that the half-pixel offsets of sweep_ref on  *)
(* odd image sizes are integers too.  A radius is kept by its square       *)
(* (q = (2*rr)^2), and an intensity is kept as a number a + b*sqrt(f),     *)
(* f squarefree, in units of 1/(2*dR): two intensities are equal exactly   *)
(* when their records are equal.                                           *)
(***************************************************************************)
EXTENDS Integers, Sequences, FiniteSets, TLC

VARIABLES
    \* ---- radial sweep: the arguments shared by both variants
    I, Rmin, dR, nrow, ncol, dxy, inc,
    \* g_sweep_prototype: the image being filled, the loop position, the
    \* control position ("call", "loop", "centre", "done", or the exception)
    image, irow, jcol, pc,
    \* sweep_ref: its returned intensmap and control position
    intensmap, refpc,
    \* ---- int_bilin_MT: arguments f, x, y (x, y in half pixels), the output
    \* fint (in quarters), the loop index i and the control position
    f, x, y, fint, i, bpc,
    \* ---- uv_idx_r2c: arguments and the returned (indu, indv), in units of
    \* 1/du, for the samples and for their conjugates (-udat, -vdat)
    udat, vdat, du, half_size, indu, indv, indu_conj, indv_conj, uvpc,
    \* ---- phase shifters: grid ft_centered of size nx, the shift (x0, y0),
    \* wle and maxuv; the samples (u, v, vis) handed to Fourier_shift_array;
    \* the shifted and shifted-back results; in_wle tells whether the caller
    \* hands the sample coordinates in units of the observing wavelength
    nx, x0, y0, wle, maxuv, in_wle, ft_centered, ft_shifted, ft_back,
    u, v, vis, vis_shifted, vis_back, spc

sweepVars == <<I, Rmin, dR, nrow, ncol, dxy, inc, image, irow, jcol, pc,
               intensmap, refpc>>
bilinVars == <<f, x, y, fint, i, bpc>>
uvVars    == <<udat, vdat, du, half_size, indu, indv, indu_conj, indv_conj,
               uvpc>>
shiftVars == <<nx, x0, y0, wle, maxuv, in_wle, ft_centered, ft_shifted,
               ft_back, u, v, vis, vis_shifted, vis_back, spc>>
vars == <<sweepVars, bilinVars, uvVars, shiftVars>>

\* A component that is not part of the running specification stays idle.
IdleSweep ==
    /\ I = 0 /\ Rmin = 0 /\ dR = 0 /\ nrow = 0 /\ ncol = 0 /\ dxy = 0
    /\ inc = 0 /\ image = 0 /\ irow = 0 /\ jcol = 0 /\ pc = "idle"
    /\ intensmap = 0 /\ refpc = "idle"

IdleBilin ==
    /\ f = 0 /\ x = 0 /\ y = 0 /\ fint = 0 /\ i = 0 /\ bpc = "idle"

IdleUV ==
    /\ udat = 0 /\ vdat = 0 /\ du = 0 /\ half_size = 0 /\ indu = 0
    /\ indv = 0 /\ indu_conj = 0 /\ indv_conj = 0 /\ uvpc = "idle"

IdleShift ==
    /\ nx = 0 /\ x0 = 0 /\ y0 = 0 /\ wle = 0 /\ maxuv = 0
    /\ in_wle = FALSE /\ ft_centered = 0 /\ ft_shifted = 0 /\ ft_back = 0
    /\ u = 0 /\ v = 0 /\ vis = 0 /\ vis_shifted = 0 /\ vis_back = 0
    /\ spc = "idle"

(***************************************************************************)
(* Bounds of the model.                                                    *)
(***************************************************************************)
MaxNrad == 3        \* profiles hold 2..MaxNrad values
MaxI == 2           \* profile values are 0..MaxI
MaxRmin == 3        \* Rmin is 0..MaxRmin
MaxDR == 2          \* dR is 1..MaxDR
MaxDxy == 3         \* dxy is 1..MaxDxy
MaxDim == 4         \* image shapes are 1..MaxDim x 1..MaxDim
MaxImg == 2         \* sampled images are 1..MaxImg x 1..MaxImg
MaxSamples == 2     \* int_bilin_MT gets 1..MaxSamples samples
MaxLen == 2         \* uv_idx_r2c gets 1..MaxLen samples
MaxUV == 2          \* udat, vdat are -MaxUV..MaxUV, half_size MaxUV..MaxUV+1
MaxDu == 2          \* du is 1..MaxDu
MaxNx == 4          \* transform grids are nx x nx, nx in 1..MaxNx
MaxShift == 1       \* x0 and y0 are -MaxShift..MaxShift (arcsec)
MaxWle == 2         \* wle is 1..MaxWle
MaxMaxuv == 2       \* maxuv is 1..MaxMaxuv
MaxAmp == 2         \* the grid values are scaled by 1..MaxAmp

(***************************************************************************)
(* Helpers: integer arithmetic and Python indexing.                        *)
(***************************************************************************)
Min(p, q) == IF p <= q THEN p ELSE q

Abs(p) == IF p < 0 THEN -p ELSE p

\* np.ceil(p / q) for q > 0
CeilDiv(p, q) == -((-p) \div q)

\* floor(np.sqrt(q)) for q >= 0
Isqrt(q) == CHOOSE s \in 0..q : s * s <= q /\ (s + 1) * (s + 1) > q

\* the largest s with s*s dividing q (q > 0): sqrt(q) = s * sqrt(q / s^2)
SquarePart(q) ==
    CHOOSE s \in 1..q :
        /\ q % (s * s) = 0
        /\ \A t \in (s + 1)..q : q % (t * t) # 0

\* A Python / numpy subscript k of an axis of length n: accepted for
\* -n <= k < n, a negative k counting from the end; IndexError otherwise.
InRange(k, n) == -n <= k /\ k < n

PyIndex(k, n) == IF k < 0 THEN n + k ELSE k

(***************************************************************************)
(* Exact rationals, as records [num, den] in lowest terms with den > 0.    *)
(***************************************************************************)
RECURSIVE GCD(_, _)
GCD(p, q) == IF q = 0 THEN p ELSE GCD(q, p % q)

\* the rational p / q, q # 0
Rat(p, q) ==
    LET g == GCD(Abs(p), Abs(q))
        sg == IF q < 0 THEN -1 ELSE 1
    IN  [num |-> sg * (p \div g), den |-> sg * (q \div g)]

RatAdd(p, q) == Rat(p.num * q.den + q.num * p.den, p.den * q.den)

RatSub(p, q) == Rat(p.num * q.den - q.num * p.den, p.den * q.den)

RatMul(p, q) == Rat(p.num * q.num, p.den * q.den)

RatDiv(p, q) == Rat(p.num * q.den, p.den * q.num)

RatNeg(p) == [num |-> -p.num, den |-> p.den]

RatInt(p) == [num |-> p, den |-> 1]

(***************************************************************************)
(* Exact intensities: (a + b*sqrt(f)) / (2*dR).                            *)
(***************************************************************************)
Zero == [a |-> 0, b |-> 0, f |-> 1]

\* the number A + B*sqrt(q), q >= 0, in canonical form
Canon(A, B, q) ==
    IF B = 0 \/ q = 0 THEN [a |-> A, b |-> 0, f |-> 1]
    ELSE LET s == SquarePart(q)
         IN  IF q = s * s THEN [a |-> A + B * s, b |-> 0, f |-> 1]
             ELSE [a |-> A, b |-> B * s, f |-> q \div (s * s)]

(***************************************************************************)
(* Deprojection.                                                           *)
(***************************************************************************)
Inclinations == {0, 60, 120, 180}

\* 1 / np.cos(inc/180.*np.pi) for the inclinations of the model
InvCos(a) == CASE a = 0 -> 1 [] a = 60 -> 2 [] a = 120 -> -2 [] a = 180 -> -1

\* (2*rr)^2 for rr = np.sqrt((x/inc_cos)**2 + y**2), from x2 = 2x, y2 = 2y
RR2(x2, y2, a) == (x2 * InvCos(a)) * (x2 * InvCos(a)) + y2 * y2

(***************************************************************************)
(* g_sweep_prototype                                                       *)
(***************************************************************************)
nrad == Cardinality(DOMAIN I)

irow_center == nrow \div 2

icol_center == ncol \div 2

rmax == Min(CeilDiv(Rmin + nrad * dR, dxy), irow_center)

row_offset == irow_center - rmax

col_offset == icol_center - rmax

\* iR = np.int(np.floor((rr-Rmin) / dR)) for a pixel of squared radius q
BinIndex(q) == (Isqrt(q) - 2 * Rmin) \div (2 * dR)

\* I[iR] + (rr - iR * dR - Rmin) * (I[iR + 1] - I[iR]) / dR, both profile
\* reads with Python's subscript rule
Interpolate(q, iR) ==
    LET lo == I[PyIndex(iR, nrad)]
        hi == I[PyIndex(iR + 1, nrad)]
    IN  Canon(2 * dR * lo - (2 * iR * dR + 2 * Rmin) * (hi - lo), hi - lo, q)

\* whether the else branch of the pixel rule reads the profile out of range
ProfileReadFails(iR) == ~InRange(iR, nrad) \/ ~InRange(iR + 1, nrad)

\* the pixel rule of the double loop: truncate or interpolate
PixelValue(q) ==
    LET iR == BinIndex(q)
    IN  IF iR >= nrad - 1 THEN Zero ELSE Interpolate(q, iR)

\* the squared radius of the pixel the loop visits at (r, c)
LoopRR2(r, c) == RR2(2 * (rmax - c) * dxy, 2 * (rmax - r) * dxy, inc)

\* I[0] + Rmin * (I[0] - I[1]) / dR
CentreValue == Canon(2 * dR * I[0] + 2 * Rmin * (I[0] - I[1]), 0, 0)

ZeroImage == [r \in 0..(nrow - 1) |-> [c \in 0..(ncol - 1) |-> Zero]]

\* the sweep leaves the other components alone
SweepOnly == UNCHANGED <<bilinVars, uvVars, shiftVars>>

ProtoAssertFail ==
    /\ pc = "call"
    /\ ~(Rmin <= dxy)
    /\ pc' = "AssertionError"
    /\ UNCHANGED <<I, Rmin, dR, nrow, ncol, dxy, inc, image, irow, jcol,
                   intensmap, refpc>>
    /\ SweepOnly

ProtoCall ==
    /\ pc = "call"
    /\ Rmin <= dxy
    /\ image' = ZeroImage
    /\ irow' = 0
    /\ jcol' = 0
    /\ pc' = IF rmax * 2 = 0 THEN "centre" ELSE "loop"
    /\ UNCHANGED <<I, Rmin, dR, nrow, ncol, dxy, inc, intensmap, refpc>>
    /\ SweepOnly

\* one pass of the inner loop body, and the step to the next pixel
ProtoPixel ==
    /\ pc = "loop"
    /\ LET q == LoopRR2(irow, jcol)
           iR == BinIndex(q)
           r == irow + row_offset
           c == jcol + col_offset
           last == jcol + 1 = rmax * 2
       IN  IF (iR < nrad - 1 /\ ProfileReadFails(iR))
              \/ ~InRange(r, nrow) \/ ~InRange(c, ncol)
           THEN /\ pc' = "IndexError"
                /\ UNCHANGED <<image, irow, jcol>>
           ELSE /\ image' = [image EXCEPT
                       ![PyIndex(r, nrow)][PyIndex(c, ncol)] = PixelValue(q)]
                /\ jcol' = IF last THEN 0 ELSE jcol + 1
                /\ irow' = IF last THEN irow + 1 ELSE irow
                /\ pc' = IF last /\ irow + 1 = rmax * 2 THEN "centre"
                         ELSE "loop"
    /\ UNCHANGED <<I, Rmin, dR, nrow, ncol, dxy, inc, intensmap, refpc>>
    /\ SweepOnly

\* the central pixel, and the return
ProtoCentre ==
    /\ pc = "centre"
    /\ image' = IF Rmin # 0
                THEN [image EXCEPT ![irow_center][icol_center] = CentreValue]
                ELSE image
    /\ pc' = "done"
    /\ UNCHANGED <<I, Rmin, dR, nrow, ncol, dxy, inc, irow, jcol, intensmap,
                   refpc>>
    /\ SweepOnly

ProtoEnded == pc \in {"done", "AssertionError", "IndexError"}

(***************************************************************************)
(* sweep_ref                                                               *)
(***************************************************************************)
\* 2 * gridrad[k] for gridrad = np.linspace(Rmin, Rmin + dR*(nrad-1), nrad)
Gridrad2(k) == 2 * (Rmin + k * dR)

\* 2 * x[c] for x = np.linspace(0.5, -0.5 + 1./n, n) * dxy * n
Mesh2(c, n) == (n - 2 * c) * dxy

\* (2 * x_meshgrid[r][c])^2 with xxx = (x - Dx*dxy)/inc_cos, yyy = y - Dy*dxy
MeshRR2(r, c, Dx, Dy) ==
    RR2(Mesh2(c, ncol) - 2 * Dx * dxy, Mesh2(r, nrow) - 2 * Dy * dxy, inc)

\* scipy's linear interp1d at the point sqrt(q)/2: the bin is found by
\* searchsorted (the number of grid points strictly below the point),
\* clipped to 1..nrad-1, and the value is slope*(x_new - x_lo) + y_lo
LinearAt(q) ==
    LET below == Cardinality({k \in 0..(nrad - 1) :
                                 Gridrad2(k) * Gridrad2(k) < q})
        hi == IF below < 1 THEN 1
              ELSE IF below > nrad - 1 THEN nrad - 1 ELSE below
        lo == hi - 1
    IN  Canon(2 * dR * I[lo] - Gridrad2(lo) * (I[hi] - I[lo]),
              I[hi] - I[lo], q)

\* f = interp1d(gridrad, I, kind='linear', fill_value=0., bounds_error=False)
InterpFill0(q) ==
    IF q < Gridrad2(0) * Gridrad2(0)
       \/ q > Gridrad2(nrad - 1) * Gridrad2(nrad - 1)
    THEN Zero
    ELSE LinearAt(q)

\* f_center = interp1d(..., fill_value='extrapolate'), called at 0.
InterpExtrapolate0 == LinearAt(0)

sweep_ref(Dx, Dy) ==
    [r \in 0..(nrow - 1) |-> [c \in 0..(ncol - 1) |->
        IF r = nrow \div 2 /\ c = ncol \div 2
        THEN InterpExtrapolate0
        ELSE InterpFill0(MeshRR2(r, c, Dx, Dy))]]

SweepRef ==
    /\ refpc = "call"
    /\ ProtoEnded
    /\ intensmap' = sweep_ref(0, 0)
    /\ refpc' = "done"
    /\ UNCHANGED <<I, Rmin, dR, nrow, ncol, dxy, inc, image, irow, jcol, pc>>
    /\ SweepOnly

Profiles ==
    UNION {[0..(n - 1) -> 0..MaxI] : n \in 2..MaxNrad}

InitSweep ==
    /\ I \in Profiles
    /\ Rmin \in 0..MaxRmin
    /\ dR \in 1..MaxDR
    /\ nrow \in 1..MaxDim
    /\ ncol \in 1..MaxDim
    /\ dxy \in 1..MaxDxy
    /\ inc \in Inclinations
    /\ image = <<>>
    /\ irow = 0
    /\ jcol = 0
    /\ pc = "call"
    /\ intensmap = <<>>
    /\ refpc = "call"
    /\ IdleBilin /\ IdleUV /\ IdleShift

NextSweep ==
    \/ ProtoAssertFail
    \/ ProtoCall
    \/ ProtoPixel
    \/ ProtoCentre
    \/ SweepRef

SpecSweep == InitSweep /\ [][NextSweep]_vars

(***************************************************************************)
(* Properties of the sweep.                                                *)
(***************************************************************************)
Pixels == (0..(nrow - 1)) \X (0..(ncol - 1))

IsCentre(p) == p[1] = nrow \div 2 /\ p[2] = ncol \div 2

\* the squared deprojected radius of pixel p, its offset taken from the
\* image centre (int(nrow/2), int(ncol/2))
PixelRR2(p) ==
    RR2(2 * (icol_center - p[2]) * dxy, 2 * (irow_center - p[1]) * dxy, inc)

\* Rmin <= rr < Rmin + (nrad-1)*dR
InSupport(q) ==
    /\ Gridrad2(0) * Gridrad2(0) <= q
    /\ q < Gridrad2(nrad - 1) * Gridrad2(nrad - 1)

\* rr >= Rmin + (nrad-1)*dR
Truncated(q) == q >= Gridrad2(nrad - 1) * Gridrad2(nrad - 1)

BothReturned == pc = "done" /\ refpc = "done"

\* C1: with Rmin <= dxy, both variants return and give the same value at
\* the centre pixel and at every pixel whose deprojected radius lies in
\* the support of the profile.
C1_SweepVariantsAgree ==
    (refpc = "done" /\ Rmin <= dxy) =>
        /\ pc = "done"
        /\ \A p \in Pixels :
              (IsCentre(p) \/ InSupport(PixelRR2(p))) =>
                  image[p[1]][p[2]] = intensmap[p[1]][p[2]]

\* C3: every pixel other than the centre with rr >= Rmin + (nrad-1)*dR
\* is exactly 0 in the image of both variants.
C3_TruncationMatches ==
    BothReturned =>
        \A p \in Pixels :
            (~IsCentre(p) /\ Truncated(PixelRR2(p))) =>
                /\ image[p[1]][p[2]] = Zero
                /\ intensmap[p[1]][p[2]] = Zero

\* C7: a call with Rmin > dxy returns no image, in either variant, and a
\* call with Rmin <= dxy passes the check.
C7_RminCheckedByBoth ==
    /\ (Rmin > dxy) => (pc # "done" /\ refpc # "done")
    /\ (Rmin <= dxy) => pc # "AssertionError"

\* the per-pixel rule over the full image, the centre override included
FullImage ==
    [r \in 0..(nrow - 1) |-> [c \in 0..(ncol - 1) |->
        IF IsCentre(<<r, c>>) /\ Rmin # 0 THEN CentreValue
        ELSE PixelValue(PixelRR2(<<r, c>>))]]

InWindow(p) ==
    /\ row_offset <= p[1] /\ p[1] < row_offset + rmax * 2
    /\ col_offset <= p[2] /\ p[2] < col_offset + rmax * 2

\* C9: with Rmin <= dxy the prototype returns an image; every pixel left
\* outside the window is 0 in it and is 0 under the per-pixel rule too, and
\* the image equals the one the rule gives over the full image.
C9_WindowIsOnlyAnOptimization ==
    (ProtoEnded /\ Rmin <= dxy) =>
        /\ pc = "done"
        /\ \A p \in Pixels :
              (~InWindow(p) /\ ~IsCentre(p)) =>
                  /\ image[p[1]][p[2]] = Zero
                  /\ PixelValue(PixelRR2(p)) = Zero
        /\ image = FullImage

\* C10: at every pixel the double loop visits, the branch that reads the
\* profile has 0 <= iR <= nrad-2.
C10_ProfileLookupInRange ==
    (pc = "loop" /\ Rmin <= dxy) =>
        LET iR == BinIndex(LoopRR2(irow, jcol))
        IN  iR < nrad - 1 => (0 <= iR /\ iR <= nrad - 2)

(***************************************************************************)
(* int_bilin_MT.  Coordinates are in half pixels (x[k] = 3 is 1.5 pixel),  *)
(* the output in quarters of the image's unit.                             *)
(***************************************************************************)
f_nrow == Cardinality(DOMAIN f)

f_ncol == Cardinality(DOMAIN f[0])

nsamples == Cardinality(DOMAIN x)

\* np.int(np.floor(p)) of a coordinate p given in half pixels
FloorPix(p) == p \div 2

\* 2 * (p - np.floor(p))
Frac2(p) == p - 2 * FloorPix(p)

\* f[r, c] with numpy's subscript rule (the caller checks InRange)
Pix(r, c) == f[PyIndex(r, f_nrow)][PyIndex(c, f_ncol)]

\* whether one of the four reads of sample k raises IndexError
ReadFails(k) ==
    \/ ~InRange(FloorPix(y[k]), f_nrow)
    \/ ~InRange(FloorPix(y[k]) + 1, f_nrow)
    \/ ~InRange(FloorPix(x[k]), f_ncol)
    \/ ~InRange(FloorPix(x[k]) + 1, f_ncol)

\* the mutation of BilinValue that ends on "+= y1"
BilinValueAddsY1(k) ==
    LET t2 == Frac2(y[k])
        u2 == Frac2(x[k])
        p0 == Pix(FloorPix(y[k]), FloorPix(x[k]))
        p1 == Pix(FloorPix(y[k]) + 1, FloorPix(x[k]))
        p2 == Pix(FloorPix(y[k]) + 1, FloorPix(x[k]) + 1)
        p3 == Pix(FloorPix(y[k]), FloorPix(x[k]) + 1)
    IN  t2 * u2 * (p0 - p1 + p2 - p3) + 2 * t2 * (p1 - p0)
          + 2 * u2 * (p3 - p0) + 4 * p1

\* 4 * fint[k] for t*u*(y0 - y1 + y2 - y3) + t*(y1 - y0) + u*(y3 - y0) + y0,
\* the four reads y0..y3 of the source being p0..p3 here
BilinValue(k) ==
    LET t2 == Frac2(y[k])
        u2 == Frac2(x[k])
        p0 == Pix(FloorPix(y[k]), FloorPix(x[k]))
        p1 == Pix(FloorPix(y[k]) + 1, FloorPix(x[k]))
        p2 == Pix(FloorPix(y[k]) + 1, FloorPix(x[k]) + 1)
        p3 == Pix(FloorPix(y[k]), FloorPix(x[k]) + 1)
    IN  t2 * u2 * (p0 - p1 + p2 - p3) + 2 * t2 * (p1 - p0)
          + 2 * u2 * (p3 - p0) + 4 * p0

BilinOnly == UNCHANGED <<sweepVars, uvVars, shiftVars>>

\* fint = np.zeros(len(x))
BilinCall ==
    /\ bpc = "call"
    /\ fint' = [k \in DOMAIN x |-> 0]
    /\ i' = 0
    /\ bpc' = "loop"
    /\ UNCHANGED <<f, x, y>>
    /\ BilinOnly

\* one pass of the loop body
BilinStep ==
    /\ bpc = "loop"
    /\ i < nsamples
    /\ IF ReadFails(i)
       THEN /\ bpc' = "IndexError"
            /\ UNCHANGED <<fint, i>>
       ELSE /\ fint' = [fint EXCEPT ![i] = BilinValue(i)]
            /\ i' = i + 1
            /\ bpc' = "loop"
    /\ UNCHANGED <<f, x, y>>
    /\ BilinOnly

BilinReturn ==
    /\ bpc = "loop"
    /\ i = nsamples
    /\ bpc' = "done"
    /\ UNCHANGED <<f, x, y, fint, i>>
    /\ BilinOnly

\* the images of the model: pixel values all different and not bilinear in
\* (row, column), and the same image with rows and columns of equal value
TestImages(nr, nc) ==
    {[r \in 0..(nr - 1) |-> [c \in 0..(nc - 1) |->
         (r * nc + c + 1) * (r * nc + c + 1)]],
     [r \in 0..(nr - 1) |-> [c \in 0..(nc - 1) |-> r + c]]}

\* sample coordinates from -0.5 to n - 0.5 pixel, in half pixels
Coords(n) == (-1)..(2 * n - 1)

InitBilin ==
    /\ \E nr \in 1..MaxImg, nc \in 1..MaxImg, n \in 1..MaxSamples :
          /\ f \in TestImages(nr, nc)
          /\ x \in [0..(n - 1) -> Coords(nc)]
          /\ y \in [0..(n - 1) -> Coords(nr)]
    /\ fint = <<>>
    /\ i = 0
    /\ bpc = "call"
    /\ IdleSweep /\ IdleUV /\ IdleShift

NextBilin ==
    \/ BilinCall
    \/ BilinStep
    \/ BilinReturn

SpecBilin == InitBilin /\ [][NextBilin]_vars

\* sample k has integer coordinates with 0 <= x <= hx and 0 <= y <= hy
IntegerSample(k, hx, hy) ==
    /\ x[k] % 2 = 0 /\ 0 <= x[k] /\ x[k] <= 2 * hx
    /\ y[k] % 2 = 0 /\ 0 <= y[k] /\ y[k] <= 2 * hy

\* the loop has answered sample k with the pixel f[y, x] itself
AnswersPixel(k) ==
    /\ ~(bpc = "IndexError" /\ i = k)
    /\ k < i => fint[k] = 4 * f[FloorPix(y[k])][FloorPix(x[k])]

\* C4 as stated: every sample at integer coordinates 0 <= x <= ncol-1,
\* 0 <= y <= nrow-1 is answered, at its own place of the output, with
\* f[y, x].
C4_IntegerSamplesExact_AsStated ==
    bpc # "call" =>
        \A k \in DOMAIN x :
            IntegerSample(k, f_ncol - 1, f_nrow - 1) => AnswersPixel(k)

\* C4 amended: every sample at integer coordinates 0 <= x <= ncol-2,
\* 0 <= y <= nrow-2 is answered, at its own place of the output, with
\* f[y, x].
C4_InteriorIntegerSamplesExact ==
    bpc # "call" =>
        \A k \in DOMAIN x :
            IntegerSample(k, f_ncol - 2, f_nrow - 2) => AnswersPixel(k)

\* a returned output of two samples, the second at interior integer
\* coordinates and the first elsewhere
C4_Witness ==
    /\ bpc = "done"
    /\ nsamples = 2
    /\ IntegerSample(1, f_ncol - 2, f_nrow - 2)
    /\ x[0] % 2 = 1
    /\ fint[1] = 4 * f[0][0]
    /\ fint[1] # fint[0]

\* C8: a sample one of whose four neighbour indices lies outside
\* 0..nrow-1 or 0..ncol-1 is never answered with a value.
C8_OutOfRangeReported ==
    bpc # "call" =>
        \A k \in DOMAIN x :
            k < i =>
                /\ 0 <= FloorPix(y[k]) /\ FloorPix(y[k]) + 1 <= f_nrow - 1
                /\ 0 <= FloorPix(x[k]) /\ FloorPix(x[k]) + 1 <= f_ncol - 1

(***************************************************************************)
(* uv_idx_r2c                                                              *)
(***************************************************************************)
\* the mutation of uv_idx_r2c that forgets np.abs
uv_idx_r2c_NoAbs(ud, vd) ==
    LET ind_u == [k \in DOMAIN ud |-> Rat(ud[k], du)]
        ind_v == [k \in DOMAIN ud |-> RatAdd(RatInt(half_size), Rat(vd[k], du))]
        uneg == {k \in DOMAIN ud : ud[k] < 0}
    IN  <<ind_u,
          [k \in DOMAIN ud |->
              IF k \in uneg
              THEN RatSub(RatInt(half_size), Rat(vd[k], du))
              ELSE ind_v[k]]>>

\* (indu, indv) for the sample arrays ud, vd
uv_idx_r2c(ud, vd) ==
    LET ind_u == [k \in DOMAIN ud |-> Rat(Abs(ud[k]), du)]
        ind_v == [k \in DOMAIN ud |-> RatAdd(RatInt(half_size), Rat(vd[k], du))]
        uneg == {k \in DOMAIN ud : ud[k] < 0}
    IN  <<ind_u,
          [k \in DOMAIN ud |->
              IF k \in uneg
              THEN RatSub(RatInt(half_size), Rat(vd[k], du))
              ELSE ind_v[k]]>>

UVOnly == UNCHANGED <<sweepVars, bilinVars, shiftVars>>

\* the call on the samples (udat, vdat)
UVMap ==
    /\ uvpc = "call"
    /\ LET res == uv_idx_r2c(udat, vdat)
       IN  indu' = res[1] /\ indv' = res[2]
    /\ uvpc' = "mapped"
    /\ UNCHANGED <<udat, vdat, du, half_size, indu_conj, indv_conj>>
    /\ UVOnly

\* the call on the conjugate samples (-udat, -vdat)
UVMapConjugates ==
    /\ uvpc = "mapped"
    /\ LET uc == [k \in DOMAIN udat |-> -udat[k]]
           vc == [k \in DOMAIN vdat |-> -vdat[k]]
           res == uv_idx_r2c(uc, vc)
       IN  indu_conj' = res[1] /\ indv_conj' = res[2]
    /\ uvpc' = "done"
    /\ UNCHANGED <<udat, vdat, du, half_size, indu, indv>>
    /\ UVOnly

InitUV ==
    /\ \E n \in 1..MaxLen :
          /\ udat \in [0..(n - 1) -> (-MaxUV)..MaxUV]
          /\ vdat \in [0..(n - 1) -> (-MaxUV)..MaxUV]
    /\ du \in 1..MaxDu
    /\ half_size \in MaxUV..(MaxUV + 1)
    /\ indu = <<>> /\ indv = <<>> /\ indu_conj = <<>> /\ indv_conj = <<>>
    /\ uvpc = "call"
    /\ IdleSweep /\ IdleBilin /\ IdleShift

NextUV ==
    \/ UVMap
    \/ UVMapConjugates

SpecUV == InitUV /\ [][NextUV]_vars

\* sample k and its conjugate get the same pixel_u and the same pixel_v
SameFoldedPixel(k) == indu[k] = indu_conj[k] /\ indv[k] = indv_conj[k]

\* C6 as stated: for every (u, v), u = 0 included, (u, v) and (-u, -v) are
\* mapped to the same pixel_u and the same folded pixel_v.
C6_HermitianFold_AsStated ==
    uvpc = "done" => \A k \in DOMAIN udat : SameFoldedPixel(k)

\* C6 amended: for every (u, v) with u # 0, (u, v) and (-u, -v) are mapped
\* to the same pixel_u = |u|/du and the same folded pixel_v.
C6_HermitianFoldOffAxis ==
    uvpc = "done" =>
        \A k \in DOMAIN udat :
            udat[k] # 0 =>
                /\ SameFoldedPixel(k)
                /\ indu[k] = Rat(Abs(udat[k]), du)

\* both calls returned for samples with u < 0 and with u > 0, v # 0
C6_Witness ==
    /\ uvpc = "done"
    /\ \E k \in DOMAIN udat : udat[k] < 0 /\ vdat[k] # 0 /\ SameFoldedPixel(k)
    /\ \E k \in DOMAIN udat : udat[k] > 0 /\ vdat[k] # 0 /\ SameFoldedPixel(k)

(***************************************************************************)
(* Phase shifters.  A phase is an exact rational in units of               *)
(* 2*pi*sec2rad radian.  A complex value is kept as the record             *)
(* [re, im, ph] standing for (re + 1j*im) * exp(1j*ph), with ph the phase  *)
(* it has been turned by: multiplying by cos(theta) + 1j*sin(theta) adds   *)
(* theta to ph and leaves the magnitude alone.                             *)
(***************************************************************************)
\* a value turned by theta; the value 0 has no phase
Turned(z, theta) ==
    IF z.re = 0 /\ z.im = 0 THEN [re |-> 0, im |-> 0, ph |-> RatInt(0)]
    ELSE [re |-> z.re, im |-> z.im, ph |-> RatAdd(z.ph, theta)]

\* n * np.fft.fftfreq(n)[k]
FFTFreqN(n, k) == IF k <= (n - 1) \div 2 THEN k ELSE k - n

\* n * np.fft.fftshift(np.fft.fftfreq(n))[j]: the array rolled by n // 2
FFTShiftFreqN(n, j) == FFTFreqN(n, (j - n \div 2) % n)

\* spatial_freq[j] / (2*pi) = maxuv * fftshift(fftfreq(nx))[j]
SpatialFreq(n, j) == Rat(maxuv * FFTShiftFreqN(n, j), n)

\* the mutation of StaticPhase that leaves the shift in arcsec, without
\* the division by wle
StaticPhaseNoWle(n, r, c, sx, sy) ==
    RatAdd(RatMul(SpatialFreq(n, c), RatInt(sx)),
           RatMul(SpatialFreq(n, r), RatInt(sy)))

\* uv_grid[r][c] = uu*x0 + vv*y0 with x0, y0 scaled by sec2rad/wle
StaticPhase(n, r, c, sx, sy) ==
    RatAdd(RatMul(SpatialFreq(n, c), Rat(sx, wle)),
           RatMul(SpatialFreq(n, r), Rat(sy, wle)))

\* the mutation of ApplyPhaseChange that returns re_v_shifted alone
ApplyPhaseChangeRealOnly(z, theta) ==
    [re |-> z.re, im |-> 0, ph |-> RatAdd(z.ph, theta)]

\* re_v_shifted + 1j*imag_v_shifted with
\* re_v_shifted = re*cos - im*sin and imag_v_shifted = im*cos + re*sin
ApplyPhaseChange(z, theta) == Turned(z, theta)

Fourier_shift_static(ft, sx, sy) ==
    LET n == Cardinality(DOMAIN ft)
    IN  [r \in 0..(n - 1) |-> [c \in 0..(n - 1) |->
            ApplyPhaseChange(ft[r][c], StaticPhase(n, r, c, sx, sy))]]

\* theta = u*x0 + v*y0 with x0, y0 scaled by sec2rad and by 2*pi
ArrayPhase(pu, pv, sx, sy) ==
    RatAdd(RatMul(pu, RatInt(sx)), RatMul(pv, RatInt(sy)))

\* fint * (np.cos(theta) + 1j*np.sin(theta))
Fourier_shift_array(us, vs, vals, sx, sy) ==
    [k \in DOMAIN vals |->
        Turned(vals[k], ArrayPhase(us[k], vs[k], sx, sy))]

\* pixel_coordinates(maxuv, n)[j] = (j - n/2.) * maxuv/n
pixel_coordinates(n, j) == Rat((2 * j - n) * maxuv, 2 * n)

ShiftOnly == UNCHANGED <<sweepVars, bilinVars, uvVars>>

ShiftStatic ==
    /\ spc = "call"
    /\ ft_shifted' = Fourier_shift_static(ft_centered, x0, y0)
    /\ spc' = "static"
    /\ UNCHANGED <<nx, x0, y0, wle, maxuv, in_wle, ft_centered, ft_back,
                   u, v, vis, vis_shifted, vis_back>>
    /\ ShiftOnly

ShiftStaticBack ==
    /\ spc = "static"
    /\ ft_back' = Fourier_shift_static(ft_shifted, -x0, -y0)
    /\ spc' = "static_back"
    /\ UNCHANGED <<nx, x0, y0, wle, maxuv, in_wle, ft_centered, ft_shifted,
                   u, v, vis, vis_shifted, vis_back>>
    /\ ShiftOnly

ShiftArray ==
    /\ spc = "static_back"
    /\ vis_shifted' = Fourier_shift_array(u, v, vis, x0, y0)
    /\ spc' = "array"
    /\ UNCHANGED <<nx, x0, y0, wle, maxuv, in_wle, ft_centered, ft_shifted,
                   ft_back, u, v, vis, vis_back>>
    /\ ShiftOnly

ShiftArrayBack ==
    /\ spc = "array"
    /\ vis_back' = Fourier_shift_array(u, v, vis_shifted, -x0, -y0)
    /\ spc' = "done"
    /\ UNCHANGED <<nx, x0, y0, wle, maxuv, in_wle, ft_centered, ft_shifted,
                   ft_back, u, v, vis, vis_shifted>>
    /\ ShiftOnly

\* the sample that sits on grid node (r, c) has index r*nx + c
NodeRow(k) == k \div nx

NodeCol(k) == k % nx

\* a grid of values, all different and none 0
TestGrid(n, amp) ==
    [r \in 0..(n - 1) |-> [c \in 0..(n - 1) |->
        [re |-> amp * (r * n + c + 1), im |-> amp * (r - c),
         ph |-> RatInt(0)]]]

\* One sample on every node of the grid, its value the unshifted grid's and
\* its coordinates the node's pixel_coordinates, handed over as they are or
\* divided by wle.
InitShift ==
    /\ nx \in 1..MaxNx
    /\ x0 \in (-MaxShift)..MaxShift
    /\ y0 \in (-MaxShift)..MaxShift
    /\ wle \in 1..MaxWle
    /\ maxuv \in 1..MaxMaxuv
    /\ in_wle \in BOOLEAN
    /\ \E amp \in 1..MaxAmp : ft_centered = TestGrid(nx, amp)
    /\ u = [k \in 0..(nx * nx - 1) |->
              RatDiv(pixel_coordinates(nx, NodeCol(k)),
                     RatInt(IF in_wle THEN wle ELSE 1))]
    /\ v = [k \in 0..(nx * nx - 1) |->
              RatDiv(pixel_coordinates(nx, NodeRow(k)),
                     RatInt(IF in_wle THEN wle ELSE 1))]
    /\ vis = [k \in 0..(nx * nx - 1) |-> ft_centered[NodeRow(k)][NodeCol(k)]]
    /\ ft_shifted = <<>> /\ ft_back = <<>>
    /\ vis_shifted = <<>> /\ vis_back = <<>>
    /\ spc = "call"
    /\ IdleSweep /\ IdleBilin /\ IdleUV

NextShift ==
    \/ ShiftStatic
    \/ ShiftStaticBack
    \/ ShiftArray
    \/ ShiftArrayBack

SpecShift == InitShift /\ [][NextShift]_vars

\* at every node the shifted grid holds what the point form makes of the
\* unshifted sample sitting on that node
GridMatchesPoints ==
    \A k \in DOMAIN vis : ft_shifted[NodeRow(k)][NodeCol(k)] = vis_shifted[k]

\* C2 as stated: with the samples at the nodes' own (u, v), for every grid
\* size, the grid form and the point form apply the same phase.
C2_GridAndPointAgree_AsStated ==
    (spc \in {"array", "done"} /\ ~in_wle) => GridMatchesPoints

\* C2 amended: for an even grid size nx and the samples at the nodes'
\* (u/wle, v/wle), the grid form and the point form apply the same phase
\* for the same (x0, y0).
C2_GridAndPointAgreeInWavelengths ==
    (spc \in {"array", "done"} /\ in_wle /\ nx % 2 = 0) =>
        /\ GridMatchesPoints
        /\ \A k \in DOMAIN vis :
              StaticPhase(nx, NodeRow(k), NodeCol(k), x0, y0)
                  = ArrayPhase(u[k], v[k], x0, y0)

\* both forms have shifted a 4 x 4 grid by a shift with x0 # 0 and y0 # 0 at
\* wle = 2, and a node off the axes got a phase other than 0
C2_Witness ==
    /\ spc = "done" /\ in_wle /\ nx = 4 /\ wle = 2
    /\ x0 # 0 /\ y0 # 0
    /\ ft_shifted[0][1].ph # RatInt(0)
    /\ ft_shifted[0][1] = vis_shifted[1]

\* C5: shifting by (x0, y0) and then by (-x0, -y0) restores the samples and
\* the grid; the second phase is the negation of the first at every sample
\* and node, and each call leaves the magnitude alone.
C5_ShiftRoundTrip ==
    /\ spc \in {"static_back", "array", "done"} =>
          /\ ft_back = ft_centered
          /\ \A r \in DOMAIN ft_centered : \A c \in DOMAIN ft_centered :
                /\ RatSub(ft_back[r][c].ph, ft_shifted[r][c].ph)
                      = RatNeg(RatSub(ft_shifted[r][c].ph,
                                      ft_centered[r][c].ph))
                /\ ft_shifted[r][c].re = ft_centered[r][c].re
                /\ ft_shifted[r][c].im = ft_centered[r][c].im
    /\ spc = "done" =>
          /\ vis_back = vis
          /\ \A k \in DOMAIN vis :
                /\ RatSub(vis_back[k].ph, vis_shifted[k].ph)
                      = RatNeg(RatSub(vis_shifted[k].ph, vis[k].ph))
                /\ vis_shifted[k].re = vis[k].re
                /\ vis_shifted[k].im = vis[k].im

\* a round trip of both forms with a shift that turns some value
C5_Witness ==
    /\ spc = "done"
    /\ x0 # 0 /\ y0 # 0
    /\ \E k \in DOMAIN vis : vis_shifted[k] # vis[k] /\ vis_back[k] = vis[k]
    /\ \E r \in DOMAIN ft_centered :
          ft_shifted[r] # ft_centered[r] /\ ft_back[r] = ft_centered[r]

====
